---- MODULE Spec2Model ----
(***************************************************************************)
(* Model of src/app.py: the cached loader load_data and the script body    *)
(* that filters the table and computes the KPIs and the four result tables *)
(* on every rerun of the script.                                           *)
(*                                                                         *)
(* Time is discrete.  A timestamp is a number of ticks, TicksPerDay ticks  *)
(* make a calendar day and DaysPerMonth days make a calendar month, so a   *)
(* timestamp has a time of day, a date and a month as in the source.       *)
(* Amounts are integers (pence).                                            *)
(***************************************************************************)
EXTENDS Integers, Sequences, FiniteSets, TLC

(* ------------------------------ bounds --------------------------------- *)
TicksPerDay == 2
DaysPerMonth == 2
MaxDay == 4
MaxRows == 3
MaxReads == 2

(* ------------------------- program constants --------------------------- *)
TopNMin == 5
TopNMax == 20
TopNDefault == 10
CountryTop == 15
DefaultCountries == 3

(* ------------------------------ calendar ------------------------------- *)
NaT == -1
NoCustomer == 0

TS(day, tick) == day * TicksPerDay + tick
DateOf(ts) == ts \div TicksPerDay
MonthOf(ts) == DateOf(ts) \div DaysPerMonth
\* pd.to_datetime(date): midnight of the date
to_datetime(d) == d * TicksPerDay
\* .dt.to_period("M").dt.to_timestamp(): first instant of the month
month_start(ts) == IF ts = NaT THEN NaT ELSE MonthOf(ts) * DaysPerMonth * TicksPerDay
\* label of a freq="M" bin: midnight of the last day of the month
month_end(m) == ((m + 1) * DaysPerMonth - 1) * TicksPerDay
\* .dt.strftime("%Y-%m")
strftime_Ym(ts) == MonthOf(ts)

Days == 0..MaxDay

(* ---------------------------- sheet cells ------------------------------ *)
NumCell(n) == [kind |-> "num", num |-> n, text |-> <<>>]
TextCell(t) == [kind |-> "text", num |-> 0, text |-> t]
BlankCell == [kind |-> "blank", num |-> 0, text |-> <<>>]

DateCell(ts) == [kind |-> "date", ts |-> ts]
TextDate == [kind |-> "text", ts |-> NaT]
BlankDate == [kind |-> "blank", ts |-> NaT]

NumericCols == {"Quantity", "UnitPrice", "Revenue", "Cost", "Profit"}

DigitVal == ("0" :> 0) @@ ("1" :> 1) @@ ("2" :> 2) @@ ("3" :> 3) @@ ("4" :> 4)
            @@ ("5" :> 5) @@ ("6" :> 6) @@ ("7" :> 7) @@ ("8" :> 8) @@ ("9" :> 9)

RECURSIVE digits_value(_, _)
digits_value(t, acc) ==
    IF t = <<>> THEN acc
    ELSE digits_value(Tail(t), 10 * acc + DigitVal[Head(t)])

all_digits(t) == t # <<>> /\ \A i \in 1..Len(t) : t[i] \in DOMAIN DigitVal

NaN == [nan |-> TRUE, v |-> 0]
Num(n) == [nan |-> FALSE, v |-> n]

parse_text(t) ==
    IF all_digits(t) THEN Num(digits_value(t, 0))
    ELSE IF t # <<>> /\ Head(t) = "-" /\ all_digits(Tail(t))
         THEN Num(0 - digits_value(Tail(t), 0))
         ELSE NaN

\* pd.to_numeric(value, errors="coerce")
to_numeric_noparse(c) == IF c.kind = "num" THEN Num(c.num) ELSE NaN
to_numeric(c) ==
    CASE c.kind = "num" -> Num(c.num)
      [] c.kind = "text" -> parse_text(c.text)
      [] OTHER -> NaN

fillna(x, val) == IF x.nan THEN val ELSE x.v

\* a sequence given by a rule, with its elements computed once
seq(f) == f \o <<>>

(* ------------------------------ loader --------------------------------- *)
NoTable == [columns |-> {}, rows |-> <<>>]

\* parse_dates=["InvoiceDate"]: the column becomes a datetime column unless a
\* cell holds text that is no date, and then it is left as read
dates_parsed(rows) == \A i \in 1..Len(rows) : rows[i].InvoiceDate.kind # "text"
parse_date(c) == IF c.kind = "date" THEN c.ts ELSE NaT

\* one numeric column of one row after line 14; a column the sheet lacks is skipped
coerce(cols, r, col) ==
    IF col \in cols THEN fillna(to_numeric(r[col]), 0) ELSE 0

normalize_row(cols, r) ==
    [InvoiceNo |-> r.InvoiceNo, StockCode |-> r.StockCode,
     Description |-> r.Description, CustomerID |-> r.CustomerID,
     Country |-> r.Country,
     InvoiceDate |-> parse_date(r.InvoiceDate),
     Quantity |-> coerce(cols, r, "Quantity"),
     UnitPrice |-> coerce(cols, r, "UnitPrice"),
     Revenue |-> coerce(cols, r, "Revenue"),
     Cost |-> coerce(cols, r, "Cost"),
     Profit |-> coerce(cols, r, "Profit"),
     Month |-> month_start(parse_date(r.InvoiceDate))]

\* the body of load_data: read_excel, the coercion loop, the Month column.
\* .dt on a column that is not datetime raises, and load_data with it.
load_data_body(src) ==
    IF dates_parsed(src.rows)
    THEN [ok |-> TRUE,
          df |-> [columns |-> src.columns,
                  rows |-> seq([i \in 1..Len(src.rows) |->
                                   normalize_row(src.columns, src.rows[i])])]]
    ELSE [ok |-> FALSE, df |-> NoTable]

\* @st.cache_data: a call with a path already computed returns the stored
\* table without running the body; a call that raises stores nothing
load_data_nocache(c, src) ==
    LET r == load_data_body(src) IN
    [ok |-> r.ok, df |-> r.df, cache |-> IF r.ok THEN <<r.df>> ELSE c, read |-> TRUE]
load_data(c, src) ==
    IF c # <<>>
    THEN [ok |-> TRUE, df |-> c[1], cache |-> c, read |-> FALSE]
    ELSE LET r == load_data_body(src) IN
         [ok |-> r.ok, df |-> r.df,
          cache |-> IF r.ok THEN <<r.df>> ELSE c, read |-> TRUE]

(* ------------------------------ engine --------------------------------- *)
\* the sum of a column over the rows at the positions I
RECURSIVE SumAt(_, _, _)
SumAt(rows, col, I) ==
    IF I = {} THEN 0
    ELSE LET i == CHOOSE j \in I : TRUE IN rows[i][col] + SumAt(rows, col, I \ {i})

\* the sum of a column
RECURSIVE sum_from(_, _, _)
sum_from(rows, col, i) ==
    IF i > Len(rows) THEN 0 ELSE rows[i][col] + sum_from(rows, col, i + 1)

Sum(rows, col) == sum_from(rows, col, 1)

nunique_at(rows, col, I) == Cardinality({rows[i][col] : i \in I})
nunique(rows, col) == nunique_at(rows, col, DOMAIN rows)

\* a comparison with NaT is False
ts_ge(a, b) == a # NaT /\ b # NaT /\ a >= b
ts_le(a, b) == a # NaT /\ b # NaT /\ a <= b

\* line 36
in_range_nat(ts, start_date, end_date) ==
    ~(ts # NaT /\ ts < start_date) /\ ~(ts # NaT /\ ts > end_date)
in_range(ts, start_date, end_date) ==
    ts_ge(ts, start_date) /\ ts_le(ts, end_date)

\* lines 36-38 for one row
mask_always_isin(r, start_date, end_date, sel) ==
    in_range(r.InvoiceDate, start_date, end_date) /\ r.Country \in sel
mask(r, start_date, end_date, sel) ==
    /\ in_range(r.InvoiceDate, start_date, end_date)
    /\ (sel # {} => r.Country \in sel)

\* df[mask]: the rows whose mask is True, in table order
RECURSIVE select(_, _, _, _, _)
select(rows, start_date, end_date, sel, i) ==
    IF i > Len(rows) THEN <<>>
    ELSE IF mask(rows[i], start_date, end_date, sel)
         THEN <<rows[i]>> \o select(rows, start_date, end_date, sel, i + 1)
         ELSE select(rows, start_date, end_date, sel, i + 1)

\* lines 35-39
filter_rows(d, dr, sel) ==
    select(d.rows, to_datetime(dr[1]), to_datetime(dr[2]), sel, 1)

\* the value of a true division a / b (b # 0), as a fraction in lowest terms
RECURSIVE gcd(_, _)
gcd(a, b) == IF b = 0 THEN a ELSE gcd(b, a % b)
abs(a) == IF a < 0 THEN 0 - a ELSE a
div(a, b) ==
    LET g == gcd(abs(a), abs(b))
        sg == IF b < 0 THEN 0 - 1 ELSE 1
    IN [num |-> sg * (a \div g), den |-> sg * (b \div g)]
Zero == [num |-> 0, den |-> 1]

\* lines 42-46
total_revenue_of(f) == Sum(f, "Revenue")
total_profit_of(f) == Sum(f, "Profit")
total_orders_rows(f) == Len(f)
total_orders_of(f) == nunique(f, "InvoiceNo")
\* a float division by 0 gives no number; den = 0 stands for it
avg_order_value_unguarded(revenue, orders) ==
    IF orders # 0 THEN div(revenue, orders) ELSE [num |-> revenue, den |-> 0]
avg_order_value_of(revenue, orders) ==
    IF orders # 0 THEN div(revenue, orders) ELSE Zero
profit_margin_of(profit, revenue) ==
    IF revenue # 0 THEN div(profit, revenue) ELSE Zero

at(f, col, val) == {i \in DOMAIN f : f[i][col] = val}

min_of(S) == CHOOSE x \in S : \A y \in S : x <= y
max_of(S) == CHOOSE x \in S : \A y \in S : x >= y

\* lines 58-59: pd.Grouper(freq="M") makes one bin for every month from the
\* first row's month to the last row's month, in order; an empty bin sums to 0
month_bin(f, m) ==
    LET I == {i \in DOMAIN f : MonthOf(f[i].InvoiceDate) = m} IN
    [InvoiceDate |-> month_end(m),
     Revenue |-> SumAt(f, "Revenue", I),
     Profit |-> SumAt(f, "Profit", I),
     Month |-> strftime_Ym(month_end(m))]
monthly_desc(f) ==
    IF f = <<>> THEN <<>>
    ELSE LET ms == {MonthOf(f[i].InvoiceDate) : i \in DOMAIN f}
             lo == min_of(ms)
             hi == max_of(ms)
         IN seq([k \in 1..(hi - lo + 1) |-> month_bin(f, hi - k + 1)])
monthly_of(f) ==
    IF f = <<>> THEN <<>>
    ELSE LET ms == {MonthOf(f[i].InvoiceDate) : i \in DOMAIN f}
             lo == min_of(ms)
             hi == max_of(ms)
         IN seq([k \in 1..(hi - lo + 1) |-> month_bin(f, lo + k - 1)])

\* groupby orders the groups by ascending key
RECURSIVE asc_from(_, _, _)
asc_from(S, k, hi) ==
    IF k > hi THEN <<>>
    ELSE IF k \in S THEN <<k>> \o asc_from(S, k + 1, hi)
         ELSE asc_from(S, k + 1, hi)

ascending(S) == IF S = {} THEN <<>> ELSE asc_from(S, min_of(S), max_of(S))

\* line 66: the key is (StockCode, Description), ordered lexicographically
product_groups(f) ==
    LET codes == ascending({f[i].StockCode : i \in DOMAIN f})
        group(c, d) ==
            LET I == {i \in DOMAIN f : f[i].StockCode = c /\ f[i].Description = d} IN
            [StockCode |-> c, Description |-> d, Revenue |-> SumAt(f, "Revenue", I),
             Profit |-> SumAt(f, "Profit", I), Quantity |-> SumAt(f, "Quantity", I)]
        of_code(c) ==
            LET ds == ascending({f[i].Description : i \in at(f, "StockCode", c)})
            IN seq([k \in 1..Len(ds) |-> group(c, ds[k])])
        RECURSIVE concat(_)
        concat(k) == IF k > Len(codes) THEN <<>>
                     ELSE of_code(codes[k]) \o concat(k + 1)
    IN concat(1)

\* line 74
country_groups(f) ==
    LET cs == ascending({f[i].Country : i \in DOMAIN f}) IN
    seq([k \in 1..Len(cs) |->
        [Country |-> cs[k], Revenue |-> SumAt(f, "Revenue", at(f, "Country", cs[k]))]])

\* line 80: groupby drops the rows whose key is missing
customer_groups(f) ==
    LET cs == ascending({f[i].CustomerID : i \in DOMAIN f} \ {NoCustomer}) IN
    seq([k \in 1..Len(cs) |->
        LET I == at(f, "CustomerID", cs[k]) IN
        [CustomerID |-> cs[k], Revenue |-> SumAt(f, "Revenue", I),
         Orders |-> nunique_at(f, "InvoiceNo", I)]])

\* sort_values("Revenue", ascending=False) with the default sort kind, which
\* is not a stable sort: rows of equal Revenue may come out in any order
stable_desc(s) ==
    LET rank(i) == Cardinality({j \in DOMAIN s : s[j].Revenue > s[i].Revenue})
                   + Cardinality({j \in 1..i : s[j].Revenue = s[i].Revenue})
        r == seq([i \in DOMAIN s |-> rank(i)])
    IN seq([k \in DOMAIN s |-> s[CHOOSE i \in DOMAIN s : r[i] = k]])

remove_at(s, i) == SubSeq(s, 1, i - 1) \o SubSeq(s, i + 1, Len(s))

RECURSIVE perms(_)
perms(s) ==
    IF s = <<>> THEN {<<>>}
    ELSE UNION {{<<s[i]>> \o p : p \in perms(remove_at(s, i))} : i \in 1..Len(s)}

\* the last position of the run of equal Revenue that starts at i
RECURSIVE run_end(_, _)
run_end(s, i) ==
    IF i < Len(s) /\ s[i + 1].Revenue = s[i].Revenue THEN run_end(s, i + 1) ELSE i

RECURSIVE orders_from(_, _)
orders_from(s, i) ==
    IF i > Len(s) THEN {<<>>}
    ELSE LET k == run_end(s, i) IN
         IF k = i
         THEN {<<s[i]>> \o q : q \in orders_from(s, i + 1)}
         ELSE {p \o q : p \in perms(SubSeq(s, i, k)), q \in orders_from(s, k + 1)}

tie_orders(s) == orders_from(s, 1)

sort_values_asc(s) ==
    {[k \in 1..Len(p) |-> p[Len(p) - k + 1]] : p \in tie_orders(stable_desc(s))}
sort_values(s) == tie_orders(stable_desc(s))

head_all(s, n) == s
head(s, n) == SubSeq(s, 1, IF n < Len(s) THEN n ELSE Len(s))

(* --------------------------- source sheets ----------------------------- *)
SrcRow(inv, code, desc, cust, ctry, date, qty, price, rev, cost, profit) ==
    [InvoiceNo |-> inv, StockCode |-> code, Description |-> desc,
     CustomerID |-> cust, Country |-> ctry, InvoiceDate |-> date,
     Quantity |-> qty, UnitPrice |-> price, Revenue |-> rev, Cost |-> cost,
     Profit |-> profit]

\* rows a sheet may hold: sales and a return on one invoice, a text amount,
\* an amount that is no number, a blank amount, a blank date, a date that is
\* no date, a guest row without customer
Pool ==
    << SrcRow(1, 1, 1, 1, 1, DateCell(TS(0, 0)),
              NumCell(1), NumCell(2), NumCell(2), NumCell(1), NumCell(1)),
       SrcRow(1, 1, 2, 1, 1, DateCell(TS(1, 1)),
              NumCell(0 - 1), NumCell(2), TextCell(<<"-", "2">>), TextCell(<<"-", "1">>),
              TextCell(<<"-", "1">>)),
       SrcRow(2, 2, 1, 2, 2, DateCell(TS(3, 1)),
              TextCell(<<"x", "1">>), NumCell(1), NumCell(2), BlankCell, BlankCell),
       SrcRow(2, 2, 1, NoCustomer, 2, BlankDate,
              NumCell(1), NumCell(3), NumCell(3), NumCell(2), NumCell(1)),
       SrcRow(3, 1, 1, 2, 1, TextDate,
              NumCell(1), NumCell(1), NumCell(1), NumCell(0), NumCell(1)),
       SrcRow(3, 2, 1, 1, 2, DateCell(TS(2, 0)),
              NumCell(2), BlankCell, TextCell(<<"1", "0">>), TextCell(<<"7", "-">>),
              NumCell(3)),
       SrcRow(2, 1, 1, NoCustomer, 1, DateCell(TS(4, 0)),
              NumCell(1), NumCell(1), NumCell(1), TextCell(<<>>), NumCell(1)) >>

\* the rows of Pool at the positions I, in sheet order
RECURSIVE pick(_, _)
pick(I, k) ==
    IF k > Len(Pool) THEN <<>>
    ELSE IF k \in I THEN <<Pool[k]>> \o pick(I, k + 1) ELSE pick(I, k + 1)

\* sheets the script gets past the date widget with (lines 25-28 need a row
\* with a date), and sheets load_data fails on
usable(rows) ==
    \/ \E i \in 1..Len(rows) : rows[i].InvoiceDate.kind = "text"
    \/ \E i \in 1..Len(rows) : rows[i].InvoiceDate.kind = "date"

SmallSheets ==
    LET full == {pick(I, 1) : I \in {J \in SUBSET (1..Len(Pool)) :
                                        Cardinality(J) \in 1..MaxRows}}
    IN {[columns |-> NumericCols, rows |-> t] : t \in {u \in full : usable(u)}}
       \cup {[columns |-> NumericCols \ {"Cost"}, rows |-> t] :
                t \in {u \in full : usable(u) /\ Len(u) = 1}}

\* a sheet with more products and customers than TopNMax and more countries
\* than CountryTop; the last row's revenue ties with row v
BigRows == TopNMax + DefaultCountries
BigCountries == CountryTop + 2
BigSheet(v, last) ==
    [columns |-> NumericCols,
     rows |-> seq([i \in 1..BigRows |->
        SrcRow(i, i, 1, i,
               IF i <= BigCountries THEN i
               ELSE ((i - BigCountries - 1) % DefaultCountries) + 1,
               IF i = BigRows THEN last ELSE DateCell(TS(i % 3, i % 2)),
               NumCell(1), NumCell(1),
               NumCell(IF i = BigRows THEN v ELSE i), NumCell(0), NumCell(1))])]
BigSheets ==
    {BigSheet(TopNDefault + 2, last) : last \in {DateCell(TS(1, 0)), TextDate}}

(* ------------------------------- state --------------------------------- *)
\* source: the sheet in the file; cache: what st.cache_data holds for the path;
\* reads: how often the body of load_data ran; hit: a call of load_data since
\* the file was last written was served from the cache; status: how the last
\* run of the script ended; df: the table the script holds; the widgets; and
\* what the last run computed
VARIABLES source, cache, reads, hit, status, df,
          date_range, country_sel, top_n,
          df_f, total_revenue, total_profit, total_orders, avg_order_value,
          profit_margin, monthly, prod, country, cust

widgets == <<date_range, country_sel, top_n>>
outputs == <<df_f, total_revenue, total_profit, total_orders, avg_order_value,
             profit_margin, monthly, prod, country, cust>>
vars == <<source, cache, reads, hit, status, df, widgets, outputs>>

Blank ==
    /\ df_f = <<>> /\ total_revenue = 0 /\ total_profit = 0 /\ total_orders = 0
    /\ avg_order_value = Zero /\ profit_margin = Zero
    /\ monthly = <<>> /\ prod = <<>> /\ country = <<>> /\ cust = <<>>

InitWith(sheets) ==
    /\ source \in sheets
    /\ cache = <<>> /\ reads = 0 /\ hit = FALSE
    /\ status = "start" /\ df = NoTable
    /\ date_range = <<0, 0>> /\ country_sel = {} /\ top_n = TopNDefault
    /\ Blank

Init == InitWith(SmallSheets)
InitTop == InitWith(BigSheets)

(* ------------------------------ actions -------------------------------- *)
\* lines 35-80 on the table d with the widget values dr, sel, n
Engine(d, dr, sel, n) ==
    \E f \in {filter_rows(d, dr, sel)} :
    /\ date_range' = dr /\ country_sel' = sel /\ top_n' = n
    /\ df_f' = f
    /\ total_revenue' = total_revenue_of(f)
    /\ total_profit' = total_profit_of(f)
    /\ total_orders' = total_orders_of(f)
    /\ avg_order_value' = avg_order_value_of(total_revenue', total_orders')
    /\ profit_margin' = profit_margin_of(total_profit', total_revenue')
    /\ monthly' = monthly_of(f)
    /\ \E p \in sort_values(product_groups(f)) : prod' = head(p, n)
    /\ \E p \in sort_values(country_groups(f)) : country' = head(p, CountryTop)
    /\ \E p \in sort_values(customer_groups(f)) : cust' = head(p, n)

\* the script stops at line 18 with the exception of load_data
Failed ==
    /\ status' = "error" /\ df' = NoTable
    /\ date_range' = <<0, 0>> /\ country_sel' = {} /\ top_n' = TopNDefault
    /\ df_f' = <<>> /\ total_revenue' = 0 /\ total_profit' = 0 /\ total_orders' = 0
    /\ avg_order_value' = Zero /\ profit_margin' = Zero
    /\ monthly' = <<>> /\ prod' = <<>> /\ country' = <<>> /\ cust' = <<>>

\* line 18 and what the cache remembers of it
Load(ld) ==
    /\ cache' = ld.cache
    /\ hit' = ~ld.read
    /\ reads' = IF ld.read /\ reads < MaxReads THEN reads + 1 ELSE reads
    /\ UNCHANGED source

\* lines 25-26
valid_dates(d) ==
    {d.rows[i].InvoiceDate : i \in 1..Len(d.rows)} \ {NaT}
min_date(d) == DateOf(min_of(valid_dates(d)))
max_date(d) == DateOf(max_of(valid_dates(d)))

\* lines 30-31: the first three countries of value_counts(), which orders the
\* countries by descending number of rows
options(d) == {d.rows[i].Country : i \in 1..Len(d.rows)}
count(d, c) == Cardinality({i \in 1..Len(d.rows) : d.rows[i].Country = c})
default_countries(d) ==
    {S \in SUBSET options(d) :
        /\ Cardinality(S) = IF Cardinality(options(d)) < DefaultCountries
                            THEN Cardinality(options(d)) ELSE DefaultCountries
        /\ \A c \in S : \A o \in options(d) \ S : count(d, c) >= count(d, o)}

\* the first run of the script of a session: the widgets take their defaults
FirstRun ==
    /\ status = "start"
    /\ LET ld == load_data(cache, source) IN
       /\ Load(ld)
       /\ IF ld.ok
          THEN /\ status' = "loaded" /\ df' = ld.df
               /\ \E sel \in default_countries(ld.df) :
                    Engine(ld.df, <<min_date(ld.df), max_date(ld.df)>>, sel, TopNDefault)
          ELSE Failed

\* a rerun of the script with the widget values dr, sel, n
Rerun(dr, sel, n) ==
    LET ld == load_data(cache, source) IN
    /\ Load(ld)
    /\ IF ld.ok
       THEN /\ status' = "loaded" /\ df' = ld.df
            /\ Engine(ld.df, dr, sel, n)
       ELSE Failed

\* the page is refreshed: the script runs again
Refresh ==
    \/ /\ status = "loaded"
       /\ Rerun(date_range, country_sel, top_n)
    \/ /\ status = "error"
       /\ LET ld == load_data(cache, source) IN Load(ld) /\ Failed

\* line 28: the user picks another date range
ChangeDateRange(d1, d2) ==
    /\ status = "loaded"
    /\ d1 <= d2
    /\ <<d1, d2>> # date_range
    /\ Rerun(<<d1, d2>>, country_sel, top_n)

\* lines 29-31: the user adds a country to the selection or removes one
ChangeCountries(c) ==
    /\ status = "loaded"
    /\ c \in options(df)
    /\ Rerun(date_range, IF c \in country_sel THEN country_sel \ {c}
                         ELSE country_sel \cup {c}, top_n)

\* line 32: the user moves the slider
ChangeTopN(n) ==
    /\ status = "loaded"
    /\ n # top_n
    /\ Rerun(date_range, country_sel, n)

\* the file is replaced on disk, once, while the app runs (the new file lacks
\* the last row); no call of load_data has seen the new file yet
ReplaceSource ==
    /\ status = "loaded"
    /\ Len(source.rows) = Len(df.rows)
    /\ Len(source.rows) > 0
    /\ source' = [source EXCEPT !.rows = SubSeq(@, 1, Len(@) - 1)]
    /\ hit' = FALSE
    /\ UNCHANGED <<cache, reads, status, df, widgets, outputs>>

\* the slider positions tried on the small sheets, and the countries the
\* user adds to or removes from the selection
SliderStops == {TopNMin, TopNDefault, TopNMax}
Selectable == 1..DefaultCountries

Interact ==
    \/ FirstRun
    \/ Refresh
    \/ \E d1, d2 \in Days : ChangeDateRange(d1, d2)
    \/ \E c \in Selectable : ChangeCountries(c)

Next ==
    \/ Interact
    \/ \E n \in SliderStops : ChangeTopN(n)
    \/ ReplaceSource

NextTop ==
    \/ Interact
    \/ \E n \in TopNMin..TopNMax : ChangeTopN(n)

\* sessions over the small sheets, with the file replaced at some point
Spec == Init /\ [][Next]_vars
\* sessions over the big sheet, with every position of the slider
SpecTop == InitTop /\ [][NextTop]_vars

(* ======================================================================= *)
(* Properties                                                              *)
(* ======================================================================= *)
loaded == status = "loaded"

\* the k-th smallest element of a set of numbers
kth(S, k) == CHOOSE i \in S : Cardinality({j \in S : j <= i}) = k

\* the rows of the table that the filter spec selects, by position
kept ==
    {i \in DOMAIN df.rows :
        /\ df.rows[i].InvoiceDate # NaT
        /\ to_datetime(date_range[1]) <= df.rows[i].InvoiceDate
        /\ df.rows[i].InvoiceDate <= to_datetime(date_range[2])
        /\ (country_sel = {} \/ df.rows[i].Country \in country_sel)}

\* C1: after every run the filtered rows are exactly the rows of the table
\* with date_start <= InvoiceDate <= date_end (the two dates taken as the
\* timestamps the code compares with) whose country is selected, or any
\* country when no country is selected, in table order.
C1_FilterExact ==
    loaded =>
        /\ Len(df_f) = Cardinality(kept)
        /\ \A k \in DOMAIN df_f : df_f[k] = df.rows[kth(kept, k)]

\* a run without country selection keeps rows of two countries and drops a row
C1_Witness ==
    /\ loaded /\ country_sel = {}
    /\ Len(df_f) < Len(df.rows)
    /\ \E i, j \in DOMAIN df_f : df_f[i].Country # df_f[j].Country

\* C2: after every run each KPI is the sum, the count or the ratio of its
\* definition over the filtered rows; a ratio whose divisor is 0 is 0.
C2_KPIs ==
    loaded =>
        /\ total_revenue = SumAt(df_f, "Revenue", DOMAIN df_f)
        /\ total_profit = SumAt(df_f, "Profit", DOMAIN df_f)
        /\ total_orders = Cardinality({df_f[i].InvoiceNo : i \in DOMAIN df_f})
        /\ IF total_orders > 0
           THEN /\ avg_order_value.den > 0
                /\ avg_order_value.num * total_orders = total_revenue * avg_order_value.den
           ELSE avg_order_value = Zero
        /\ IF total_revenue # 0
           THEN /\ profit_margin.den > 0
                /\ profit_margin.num * total_revenue = total_profit * profit_margin.den
           ELSE profit_margin = Zero

\* two filtered rows of one invoice, with a revenue and a profit that are not 0
C2_Witness ==
    /\ loaded /\ Len(df_f) = 2 /\ total_orders = 1
    /\ total_revenue # 0 /\ profit_margin # Zero

\* C3: a run whose filter spec selects no row ends normally with the five
\* KPIs 0 and the four result tables empty.
C3_ZeroRows ==
    (df # NoTable /\ df_f = <<>>) =>
        /\ loaded
        /\ total_revenue = 0 /\ total_profit = 0 /\ total_orders = 0
        /\ avg_order_value = Zero /\ profit_margin = Zero
        /\ monthly = <<>> /\ prod = <<>> /\ country = <<>> /\ cust = <<>>

\* a run over a table with dated rows, none of which the filter spec selects
C3_Witness ==
    /\ loaded /\ df_f = <<>>
    /\ \E i \in DOMAIN df.rows : df.rows[i].InvoiceDate # NaT

\* C4: every row whose InvoiceDate falls on a day from date_start to date_end,
\* at any time of the day, and whose country is selected, is a filtered row.
C4_ClosedDays ==
    loaded =>
        \A i \in DOMAIN df.rows :
            ( /\ df.rows[i].InvoiceDate # NaT
              /\ date_range[1] <= DateOf(df.rows[i].InvoiceDate)
              /\ DateOf(df.rows[i].InvoiceDate) <= date_range[2]
              /\ (country_sel = {} \/ df.rows[i].Country \in country_sel) )
            => \E k \in DOMAIN df_f : df_f[k] = df.rows[i]

nonincreasing(t) == \A k \in 1..(Len(t) - 1) : t[k].Revenue >= t[k + 1].Revenue

\* C5: top products and top customers have at most top_n rows, revenue by
\* country at most CountryTop rows, and in each of the three no row has a
\* smaller revenue than the row after it.
C5_TopN ==
    loaded =>
        /\ top_n \in TopNMin..TopNMax
        /\ Len(prod) <= top_n /\ Len(cust) <= top_n /\ Len(country) <= CountryTop
        /\ nonincreasing(prod) /\ nonincreasing(cust) /\ nonincreasing(country)

\* the three tables are cut: there are more groups than rows allowed
C5_Witness ==
    /\ loaded
    /\ Len(product_groups(df_f)) > top_n /\ Len(prod) = top_n
    /\ Len(customer_groups(df_f)) > top_n /\ Len(cust) = top_n
    /\ Len(country_groups(df_f)) > CountryTop /\ Len(country) = CountryTop
    /\ top_n > TopNDefault

months_of(f) == {MonthOf(f[i].InvoiceDate) : i \in DOMAIN f}

\* C6: the monthly trend has exactly one entry for each month with a filtered
\* row, holding the sums of Revenue and Profit of the month's filtered rows,
\* and its entries are in strictly ascending month order.
C6_Monthly ==
    loaded =>
        /\ \A m \in months_of(df_f) :
             /\ Cardinality({k \in DOMAIN monthly : monthly[k].Month = m}) = 1
             /\ \A k \in DOMAIN monthly :
                  monthly[k].Month = m =>
                    LET I == {i \in DOMAIN df_f : MonthOf(df_f[i].InvoiceDate) = m} IN
                    /\ monthly[k].Revenue = SumAt(df_f, "Revenue", I)
                    /\ monthly[k].Profit = SumAt(df_f, "Profit", I)
        /\ \A k \in 1..(Len(monthly) - 1) : monthly[k].Month < monthly[k + 1].Month

\* filtered rows in two different months
C6_Witness ==
    /\ loaded /\ Cardinality(months_of(df_f)) >= 2
    /\ Len(monthly) >= 2 /\ monthly[1].Revenue # 0

Digit == <<"0", "1", "2", "3", "4", "5", "6", "7", "8", "9">>
numeral_abs(k) ==
    IF k < 10 THEN <<Digit[k + 1]>> ELSE <<Digit[(k \div 10) + 1], Digit[(k % 10) + 1]>>
\* the decimal numeral of n, for -99 <= n <= 99
numeral(n) == IF n < 0 THEN <<"-">> \o numeral_abs(0 - n) ELSE numeral_abs(n)
Amounts == (0 - 99)..99

\* the value a cell stands for: a number is kept, the text of a number is
\* that number, anything else is 0
expected(c) ==
    CASE c.kind = "num" -> c.num
      [] c.kind = "text" /\ (\E n \in Amounts : numeral(n) = c.text) ->
            CHOOSE n \in Amounts : numeral(n) = c.text
      [] OTHER -> 0

\* C7: after load every value of a numeric column the sheet has is a number:
\* the cell's number when the cell holds one, and 0 when it holds none.
C7_Numeric ==
    loaded =>
        /\ \A i \in DOMAIN df.rows : \A col \in df.columns : df.rows[i][col] \in Int
        /\ df.columns = source.columns
        /\ \A i \in DOMAIN source.rows : \A col \in source.columns :
              df.rows[i][col] = expected(source.rows[i][col])

\* a loaded row with a text that is no number, now 0, and the text of a number
C7_Witness ==
    /\ loaded
    /\ \E i \in DOMAIN source.rows :
         /\ source.rows[i].Quantity.kind = "text" /\ df.rows[i].Quantity = 0
    /\ \E i \in DOMAIN source.rows :
         /\ source.rows[i].Revenue.kind = "text" /\ df.rows[i].Revenue # 0

unparsed(c) == c.kind # "date"

\* C9 as stated: no date that cannot be parsed makes load fail; its row is in
\* the table and never among the filtered rows.
C9_AsStated ==
    status # "start" =>
        /\ loaded
        /\ \A i \in DOMAIN source.rows :
              unparsed(source.rows[i].InvoiceDate) =>
                 i \in DOMAIN df.rows /\ df.rows[i].InvoiceDate = NaT
        /\ \A k \in DOMAIN df_f : df_f[k].InvoiceDate # NaT

\* C9 amended: a sheet with a date cell holding text that is no date makes
\* load fail; a row without date is in the loaded table with no timestamp and
\* is never among the filtered rows.
C9_MissingDates ==
    status # "start" =>
        IF \E i \in DOMAIN source.rows : source.rows[i].InvoiceDate.kind = "text"
        THEN status = "error" /\ df = NoTable /\ df_f = <<>>
        ELSE /\ loaded
             /\ \A i \in DOMAIN source.rows :
                  source.rows[i].InvoiceDate.kind = "blank" =>
                     i \in DOMAIN df.rows /\ df.rows[i].InvoiceDate = NaT
             /\ \A k \in DOMAIN df_f : df_f[k].InvoiceDate # NaT

\* a loaded table with a row without date, and a run that selects other rows
C9_Witness ==
    /\ loaded /\ df_f # <<>>
    /\ \E i \in DOMAIN source.rows : source.rows[i].InvoiceDate.kind = "blank"

key(g) == <<g.StockCode, g.Description>>
before(a, b) == a[1] < b[1] \/ (a[1] = b[1] /\ a[2] < b[2])

\* C10 as stated: the top products are the groups in stable descending order
\* of revenue, cut to top_n.
C10_AsStated ==
    loaded => prod = head(stable_desc(product_groups(df_f)), top_n)

\* C10 amended: the top products are the first top_n rows of an ordering of
\* all the groups by descending revenue, in which groups of equal revenue may
\* come in any order.
C10_SortedThenCut ==
    loaded =>
        LET g == product_groups(df_f)
            G == {g[k] : k \in DOMAIN g}
            P == {prod[k] : k \in DOMAIN prod}
        IN /\ Len(prod) = (IF top_n < Len(g) THEN top_n ELSE Len(g))
           /\ P \subseteq G /\ Cardinality(P) = Len(prod)
           /\ nonincreasing(prod)
           /\ \A x \in G \ P : \A y \in P : x.Revenue <= y.Revenue

\* two groups of equal revenue in the reverse of their group order, in a
\* table that is cut
C10_Witness ==
    /\ loaded /\ Len(product_groups(df_f)) > top_n
    /\ \E i, j \in DOMAIN prod :
         /\ i < j /\ prod[i].Revenue = prod[j].Revenue
         /\ before(key(prod[j]), key(prod[i]))

====
